---- MODULE Spec2Model ----
(***************************************************************************)
(* Model of the Streamlit dashboard of the Universal Review Toolkit        *)
(* (streamlit_app.py): the command-to-form adapter and the in-process      *)
(* execution engine.  One script run of the dashboard is a walk over the   *)
(* discovered scripts' tabs; the Run-button handler of a tab gates on the  *)
(* required fields, builds the argv, injects the MySQL settings and calls  *)
(* run_module.                                                             *)
(***************************************************************************)
EXTENDS Integers, Sequences, FiniteSets, TLC

(***************************************************************************)
(* Bounds of the model.                                                    *)
(***************************************************************************)
\* longest descriptor (number of add_argument calls of a script's cli)
MaxDecls == 2
\* most scripts discover_scripts() finds in /scripts
MaxScripts == 2

(***************************************************************************)
(* Python values held by widgets: None, str, int, float, bool.             *)
(***************************************************************************)
None == [t |-> "none", s |-> "", n |-> 0]
S(x) == [t |-> "str", s |-> x, n |-> 0]
I(k) == [t |-> "int", s |-> "", n |-> k]
B(b) == [t |-> "bool", s |-> "", n |-> IF b THEN 1 ELSE 0]
\* a float with one decimal, held as its number of tenths: F(40) is 4.0
F(k) == [t |-> "float", s |-> "", n |-> k]

\* Python truthiness, bool(v): None, "", 0 and False are falsy.
Truthy(v) ==
    CASE v.t = "none" -> FALSE
      [] v.t = "str"  -> v.s /= ""
      [] OTHER        -> v.n /= 0

\* `val not in ("", None)`: membership by ==, and 0 == "" is False in Python.
NotEmptyOrNone(v) == ~(v.t = "none" \/ (v.t = "str" /\ v.s = ""))

Digit(d) == <<"0", "1", "2", "3", "4", "5", "6", "7", "8", "9">>[d + 1]

RECURSIVE NatToStr(_)
NatToStr(k) == IF k < 10 THEN Digit(k) ELSE NatToStr(k \div 10) \o Digit(k % 10)

\* str(val) of the values above.
Str(v) ==
    CASE v.t = "none" -> "None"
      [] v.t = "str"  -> v.s
      [] v.t = "int"  -> IF v.n < 0 THEN "-" \o NatToStr(0 - v.n) ELSE NatToStr(v.n)
      [] v.t = "float" -> IF v.n < 0
                          THEN "-" \o NatToStr((0 - v.n) \div 10) \o "." \o Digit((0 - v.n) % 10)
                          ELSE NatToStr(v.n \div 10) \o "." \o Digit(v.n % 10)
      [] OTHER        -> IF v.n /= 0 THEN "True" ELSE "False"

(***************************************************************************)
(* argparse Actions declared by the scripts' cli(parser) helpers.          *)
(***************************************************************************)
Decl(dest, opts, action, typ, required, default) ==
    [dest |-> dest, option_strings |-> opts, action |-> action, type |-> typ,
     required |-> required, default |-> default, choices |-> <<>>]

DeclProductId == Decl("product_id", <<>>, "store", "none", TRUE, None)
DeclLimit     == Decl("limit", <<"--limit">>, "store", "int", FALSE, I(0))
DeclPostId    == Decl("post_id", <<"--post-id">>, "store", "int", TRUE, None)
DeclHost      == Decl("host", <<"--host">>, "store", "none", FALSE, S("localhost"))
DeclUser      == Decl("user", <<"--user">>, "store", "none", FALSE, S("root"))
DeclPassword  == Decl("password", <<"--password">>, "store", "none", FALSE, S(""))
DeclDb        == Decl("db", <<"--db">>, "store", "none", FALSE, S("wordpress"))
DeclDryRun    == Decl("dry_run", <<"--dry-run">>, "store_true", "none", FALSE, B(FALSE))
\* choices=BACKENDS: the keys of the dict, in order
DeclBackend   ==
    [Decl("backend", <<>>, "store", "none", TRUE, None) EXCEPT !.choices = <<"aliexpress">>]
DeclThreshold == Decl("threshold", <<"--threshold">>, "store", "float", FALSE, F(40))

\* the declarations the bounded descriptors are drawn from
DeclPool == {DeclProductId, DeclLimit, DeclPostId, DeclHost, DeclDryRun}

Range(f) == {f[k] : k \in DOMAIN f}

\* the other three MySQL flags, declared together as the scripts declare them
CredentialDescriptors == {<<DeclUser, DeclPassword, DeclDb>>}

\* an enumerated positional and a float flag, the two remaining kinds of field
FieldDescriptors == {<<DeclBackend, DeclThreshold>>}

\* The parsers a cli helper can populate: declarations in order, dests unique.
Descriptors ==
    CredentialDescriptors \cup FieldDescriptors
    \cup UNION {{d \in [1..k -> DeclPool] : \A a, b \in 1..k : a /= b => d[a] /= d[b]}
                : k \in 0..MaxDecls}

Dests(desc) == {desc[k].dest : k \in DOMAIN desc}

\* required = (option_strings and required) or not option_strings
IsRequired(act) ==
    (act.option_strings /= <<>> /\ act.required) \/ act.option_strings = <<>>

\* act.option_strings[-1]
LastOption(act) == act.option_strings[Len(act.option_strings)]

(***************************************************************************)
(* widget_for_action                                                       *)
(***************************************************************************)
\* argparse.SUPPRESS, the default of an action that sets no attribute
SUPPRESS == [t |-> "suppress", s |-> "==SUPPRESS==", n |-> 0]

\* the st.checkbox / st.selectbox / st.number_input / st.text_input call made:
\* the widget, whether the label carries the red asterisk, the options, the
\* step, the type= of a text input ("default" echoes, "password" masks), and
\* the value the widget holds when it first renders
Field(widget, marked, options, step, type, value) ==
    [widget |-> widget, marked |-> marked, options |-> options, step |-> step,
     type |-> type, value |-> value]

widget_for_action(action) ==
    LET required == IsRequired(action)
        default == IF action.default /= SUPPRESS THEN action.default ELSE S("")
    IN
    IF action.action = "store_true"
    THEN Field("checkbox", required, <<>>, "", "", B(FALSE))
    ELSE IF action.choices /= <<>>
    \* no index= is passed: the select box starts on its first option
    THEN Field("selectbox", required, action.choices, "", "", S(action.choices[1]))
    ELSE IF action.type \in {"int", "float"}
    THEN Field("number_input", required, <<>>,
               IF action.type = "int" THEN "1" ELSE "0.1", "",
               IF default /= S("") THEN default ELSE I(0))
    \* no type= is passed: the text input echoes what is typed
    ELSE Field("text_input", required, <<>>, "", "default", default)

\* the form of a tab: one field per action of the parser, in order
widgets(actions) == [k \in DOMAIN actions |-> widget_for_action(actions[k])]

(***************************************************************************)
(* build_argv                                                              *)
(***************************************************************************)
\* ArgvOfAction with `if val:` for a value flag: a 0 is dropped like ""
ArgvOfAction_FalsyDropped(act, values) ==
    IF act.dest \notin DOMAIN values THEN <<>>
    ELSE LET val == values[act.dest] IN
         IF act.action = "store_true"
         THEN IF Truthy(val) THEN <<act.option_strings[Len(act.option_strings)]>> ELSE <<>>
         ELSE IF act.option_strings /= <<>>
              THEN IF Truthy(val)
                   THEN <<act.option_strings[Len(act.option_strings)], Str(val)>>
                   ELSE <<>>
              ELSE <<Str(val)>>

\* one pass of build_argv's loop: the tokens one action contributes
ArgvOfAction(act, values) ==
    IF act.dest \notin DOMAIN values THEN <<>>
    ELSE LET val == values[act.dest] IN
         IF act.action = "store_true"
         THEN IF Truthy(val) THEN <<LastOption(act)>> ELSE <<>>
         ELSE IF act.option_strings /= <<>>
              THEN IF NotEmptyOrNone(val) THEN <<LastOption(act), Str(val)>> ELSE <<>>
              ELSE <<Str(val)>>

RECURSIVE build_argv_from(_, _, _)
build_argv_from(parser, values, k) ==
    IF k > Len(parser) THEN <<>>
    ELSE ArgvOfAction(parser[k], values) \o build_argv_from(parser, values, k + 1)

build_argv(parser, values) == build_argv_from(parser, values, 1)

(***************************************************************************)
(* argparse, as run_module uses it: ArgumentParser(), cli(parser),         *)
(* parser.parse_args(argv).  Every action of the scripts has nargs=None    *)
(* (one argument) or is a store_true flag; the values modelled contain no  *)
(* "--" token.                                                             *)
(***************************************************************************)
HelpAction ==
    [dest |-> "help", option_strings |-> <<"-h", "--help">>, action |-> "help",
     type |-> "none", required |-> FALSE, default |-> None]

\* parser._actions after cli(parser): the -h/--help action first unless add_help=False
ArgumentParser(cli, add_help) == IF add_help THEN <<HelpAction>> \o cli ELSE cli

\* keys of parser._option_string_actions
OptionStrings(actions) == UNION {Range(actions[k].option_strings) : k \in DOMAIN actions}

ActionOf(actions, o) ==
    actions[CHOOSE k \in DOMAIN actions : o \in Range(actions[k].option_strings)]

StartsWith(s, p) == Len(p) <= Len(s) /\ SubSeq(s, 1, Len(p)) = p
Contains(s, ch) == \E k \in 1..Len(s) : SubSeq(s, k, k) = ch
DigitChars == {"0", "1", "2", "3", "4", "5", "6", "7", "8", "9"}
IsDigits(s) == Len(s) > 0 /\ \A k \in 1..Len(s) : SubSeq(s, k, k) \in DigitChars

\* argparse's _negative_number_matcher: ^-\d+$|^-\d*\.\d+$
NegativeNumber(s) ==
    /\ StartsWith(s, "-")
    /\ LET r == SubSeq(s, 2, Len(s)) IN
       \/ IsDigits(r)
       \/ \E k \in 1..Len(r) :
            /\ SubSeq(r, k, k) = "."
            /\ (k = 1 \/ IsDigits(SubSeq(r, 1, k - 1)))
            /\ IsDigits(SubSeq(r, k + 1, Len(r)))

DigitValue(c) == CHOOSE d \in 0..9 : Digit(d) = c

RECURSIVE StrToNat(_)
StrToNat(s) ==
    IF Len(s) = 1 THEN DigitValue(s)
    ELSE 10 * StrToNat(SubSeq(s, 1, Len(s) - 1)) + DigitValue(SubSeq(s, Len(s), Len(s)))

\* int(s) accepts an optional sign and decimal digits
IsIntLiteral(s) ==
    \/ IsDigits(s)
    \/ (StartsWith(s, "-") \/ StartsWith(s, "+")) /\ IsDigits(SubSeq(s, 2, Len(s)))

StrToInt(s) ==
    IF StartsWith(s, "-") THEN 0 - StrToNat(SubSeq(s, 2, Len(s)))
    ELSE IF StartsWith(s, "+") THEN StrToNat(SubSeq(s, 2, Len(s)))
    ELSE StrToNat(s)

\* float(s) of a decimal literal: an optional sign, digits, and at most one
\* "." with digits on one side at least; the value keeps the first decimal
IsFloatLiteral(s) ==
    LET body == IF StartsWith(s, "-") \/ StartsWith(s, "+")
                THEN SubSeq(s, 2, Len(s)) ELSE s
    IN  \/ IsDigits(body)
        \/ \E k \in 1..Len(body) :
              /\ SubSeq(body, k, k) = "."
              /\ (k = 1 \/ IsDigits(SubSeq(body, 1, k - 1)))
              /\ (k = Len(body) \/ IsDigits(SubSeq(body, k + 1, Len(body))))
              /\ Len(body) > 1

StrToTenths(s) ==
    LET neg == StartsWith(s, "-")
        body == IF neg \/ StartsWith(s, "+") THEN SubSeq(s, 2, Len(s)) ELSE s
        dot == IF Contains(body, ".")
               THEN CHOOSE k \in 1..Len(body) : SubSeq(body, k, k) = "."
               ELSE Len(body) + 1
        whole == IF dot > 1 THEN StrToNat(SubSeq(body, 1, dot - 1)) ELSE 0
        tenth == IF dot < Len(body) THEN DigitValue(SubSeq(body, dot + 1, dot + 1)) ELSE 0
        k == 10 * whole + tenth
    IN  IF neg THEN 0 - k ELSE k

EqIndex(s) ==
    IF Contains(s, "=")
    THEN CHOOSE k \in 1..Len(s) :
            SubSeq(s, k, k) = "=" /\ \A j \in 1..(k - 1) : SubSeq(s, j, j) /= "="
    ELSE 0

\* ArgumentParser._parse_optional: "A" an argument, "O" an option string of the
\* parser (exact, with =value, or an unambiguous abbreviation), "E" an ambiguous
\* abbreviation, "U" an option string the parser does not know.
ParseOptional(actions, arg) ==
    LET opts == OptionStrings(actions)
        e == EqIndex(arg)
        pre == IF e > 0 THEN SubSeq(arg, 1, e - 1) ELSE arg
        expl == IF e > 0 THEN SubSeq(arg, e + 1, Len(arg)) ELSE ""
        long == StartsWith(arg, "--")
        abbrev == IF long THEN {o \in opts : StartsWith(o, pre)}
                  ELSE {o \in opts : o = SubSeq(arg, 1, 2) \/ StartsWith(o, arg)}
        Arg == [kind |-> "A", opt |-> "", has_explicit |-> FALSE, explicit |-> ""]
    IN  IF arg = "" \/ ~StartsWith(arg, "-") THEN Arg
        ELSE IF arg \in opts
        THEN [kind |-> "O", opt |-> arg, has_explicit |-> FALSE, explicit |-> ""]
        ELSE IF Len(arg) = 1 THEN Arg
        ELSE IF e > 0 /\ pre \in opts
        THEN [kind |-> "O", opt |-> pre, has_explicit |-> TRUE, explicit |-> expl]
        ELSE IF Cardinality(abbrev) > 1
        THEN [kind |-> "E", opt |-> "", has_explicit |-> FALSE, explicit |-> ""]
        ELSE IF Cardinality(abbrev) = 1
        THEN LET o == CHOOSE x \in abbrev : TRUE IN
             IF long
             THEN [kind |-> "O", opt |-> o, has_explicit |-> e > 0, explicit |-> expl]
             ELSE IF StartsWith(o, arg)
             THEN [kind |-> "O", opt |-> o, has_explicit |-> FALSE, explicit |-> ""]
             ELSE [kind |-> "O", opt |-> o, has_explicit |-> TRUE,
                   explicit |-> SubSeq(arg, 3, Len(arg))]
        ELSE IF NegativeNumber(arg) /\ ~\E o \in opts : NegativeNumber(o) THEN Arg
        ELSE IF Contains(arg, " ") THEN Arg
        ELSE [kind |-> "U", opt |-> "", has_explicit |-> FALSE, explicit |-> ""]

\* the positionals of the parser, in declaration order
PositionalActions(actions) == SelectSeq(actions, LAMBDA a : a.option_strings = <<>>)

\* ArgumentParser._get_value: the action's type applied to the argument string
GetValue(act, s) ==
    CASE act.type = "int"   -> I(StrToInt(s))
      [] act.type = "float" -> F(StrToTenths(s))
      [] OTHER              -> S(s)

\* _get_value converts and _check_value finds the value among the choices
ValueOk(act, s) ==
    /\ act.type = "int" => IsIntLiteral(s)
    /\ act.type = "float" => IsFloatLiteral(s)
    /\ act.choices /= <<>> => GetValue(act, s) \in {S(c) : c \in Range(act.choices)}

ParseError == [status |-> "error", ns |-> <<>>]

RECURSIVE parse_known(_, _, _, _)
parse_known(actions, argv, i, st) ==
    IF i > Len(argv)
    THEN IF \/ \E k \in DOMAIN actions :
                  IsRequired(actions[k]) /\ actions[k].dest \notin st.seen
            \/ st.extras
         THEN ParseError
         ELSE [status |-> "ok", ns |-> st.ns]
    ELSE LET c == ParseOptional(actions, argv[i])
             pos == PositionalActions(actions)
         IN
         CASE c.kind = "A" ->
                IF st.pi > Len(pos)
                THEN parse_known(actions, argv, i + 1, [st EXCEPT !.extras = TRUE])
                ELSE IF ~ValueOk(pos[st.pi], argv[i]) THEN ParseError
                ELSE parse_known(actions, argv, i + 1,
                        [st EXCEPT !.ns[pos[st.pi].dest] = GetValue(pos[st.pi], argv[i]),
                                   !.seen = @ \cup {pos[st.pi].dest},
                                   !.pi = @ + 1])
           [] c.kind = "U" ->
                parse_known(actions, argv, i + 1, [st EXCEPT !.extras = TRUE])
           [] c.kind = "E" -> ParseError
           [] OTHER ->
                LET act == ActionOf(actions, c.opt) IN
                CASE act.action = "help" ->
                       IF c.has_explicit THEN ParseError
                       ELSE [status |-> "help", ns |-> <<>>]
                  [] act.action = "store_true" ->
                       IF c.has_explicit THEN ParseError
                       ELSE parse_known(actions, argv, i + 1,
                               [st EXCEPT !.ns[act.dest] = B(TRUE),
                                          !.seen = @ \cup {act.dest}])
                  [] OTHER ->
                       IF c.has_explicit
                       THEN IF ~ValueOk(act, c.explicit) THEN ParseError
                            ELSE parse_known(actions, argv, i + 1,
                                    [st EXCEPT !.ns[act.dest] = GetValue(act, c.explicit),
                                               !.seen = @ \cup {act.dest}])
                       ELSE IF i + 1 > Len(argv)
                               \/ ParseOptional(actions, argv[i + 1]).kind /= "A"
                               \/ ~ValueOk(act, argv[i + 1])
                       THEN ParseError
                       ELSE parse_known(actions, argv, i + 2,
                               [st EXCEPT !.ns[act.dest] = GetValue(act, argv[i + 1]),
                                          !.seen = @ \cup {act.dest}])

\* parser.parse_args(argv): "ok" with the namespace, "help" (SystemExit(0) after
\* printing the help) or "error" (usage on stderr, SystemExit(2)).
parse_args(actions, argv) ==
    IF \E k \in DOMAIN argv : ParseOptional(actions, argv[k]).kind = "E"
    THEN ParseError
    ELSE parse_known(actions, argv, 1,
            [ns |-> [d \in Dests(actions) \ {"help"} |->
                        (CHOOSE a \in Range(actions) : a.dest = d).default],
             seen |-> {}, pi |-> 1, extras |-> FALSE])

(***************************************************************************)
(* What the user and the environment can supply.                           *)
(***************************************************************************)
TextInputs == {"", "abc", "-x"}
NumberInputs == {I(0), I(5)}
FloatInputs == {F(0), F(5)}

\* the values the widget that widget_for_action renders for an action can hold:
\* the value it first renders with, or what the user sets it to
WidgetValues(act) ==
    LET w == widget_for_action(act) IN
    CASE w.widget = "checkbox"     -> {B(FALSE), B(TRUE)}
      [] w.widget = "selectbox"    -> {S(c) : c \in Range(w.options)}
      [] w.widget = "number_input" ->
            (IF w.step = "1" THEN NumberInputs ELSE FloatInputs) \cup {w.value}
      [] OTHER                     -> {S(x) : x \in TextInputs} \cup {w.value}

\* widget_vals after the form of a parser is rendered: one value per dest
RECURSIVE FormStatesFrom(_, _)
FormStatesFrom(actions, k) ==
    IF k > Len(actions) THEN {<<>>}
    ELSE {(actions[k].dest :> v) @@ f :
            v \in WidgetValues(actions[k]), f \in FormStatesFrom(actions, k + 1)}

FormStates(actions) == FormStatesFrom(actions, 1)

\* the sidebar: mysql_host, mysql_user, mysql_pwd, mysql_db, dry_run_global
GlobalSettings ==
    [host : {"", "db.local", "--dry-run"}, user : {"", "admin"}, pwd : {"", "s3cret"},
     db : {"", "shop"}, dry_run : BOOLEAN]

\* stems of the files of /scripts, sorted
ScriptNames ==
    <<"extract_reviews", "insert_reviews", "modify_reviews", "rename_authors",
      "replace_word", "zz_more">>

\* an imported script: with a cli(parser) helper, with a main() only, or neither
Modules(name) ==
    {[name |-> name, kind |-> "cli", cli |-> d] : d \in Descriptors}
    \cup {[name |-> name, kind |-> k, cli |-> <<>>] : k \in {"main", "plain"}}

NoModule == [name |-> "", kind |-> "none", cli |-> <<>>]

\* what the entry point does once called: returns a value, raises SystemExit
\* with a code (None, an int, or a message string), or raises another exception;
\* and what it has printed by then
EntryOutcomes ==
    [kind : {"return"}, value : {None, I(0), I(1)}, out : {"", "done"}, err : {"", "warn"}]
    \cup [kind : {"exit"}, value : {None, I(0), I(1), I(3), S("fatal")},
          out : {"", "done"}, err : {"", "warn"}]
    \cup [kind : {"raise"}, value : {None}, out : {"", "done"}, err : {"", "warn"}]

NoResult == [kind |-> "none", out |-> "", err |-> "", rc |-> None]

(***************************************************************************)
(* build_parser and the Run-button handler's pure parts                    *)
(***************************************************************************)
\* build_parser(mod): the parser, or None when the module has no cli
build_parser(mod) ==
    IF mod.kind = "cli"
    THEN [present |-> TRUE, actions |-> ArgumentParser(mod.cli, FALSE)]
    ELSE [present |-> FALSE, actions |-> <<>>]

\* widget_vals.get(dest)
Get(values, dest) == IF dest \in DOMAIN values THEN values[dest] ELSE None

\* IsMissing that forgets the flags declared required=True
IsMissing_PositionalsOnly(act, values) ==
    act.option_strings = <<>> /\ ~Truthy(Get(values, act.dest))

\* the condition of the `missing` list comprehension of the Run handler
IsMissing(act, values) == IsRequired(act) /\ ~Truthy(Get(values, act.dest))

RECURSIVE MissingFrom(_, _, _)
MissingFrom(actions, values, k) ==
    IF k > Len(actions) THEN <<>>
    ELSE (IF IsMissing(actions[k], values) THEN <<actions[k].dest>> ELSE <<>>)
         \o MissingFrom(actions, values, k + 1)

Missing(parser, values) ==
    IF parser.present THEN MissingFrom(parser.actions, values, 1) ELSE <<>>

\* InjectFlag without `flag in opt_keys`: forced onto any script
InjectFlag_Undeclared(argv, opt_keys, flag, val) ==
    IF val /= "" THEN argv \o <<flag, val>> ELSE argv

\* InjectFlag without `and val`: an empty setting is injected too
InjectFlag_EmptyToo(argv, opt_keys, flag, val) ==
    IF flag \in opt_keys THEN argv \o <<flag, val>> ELSE argv

\* `if flag in opt_keys and val: argv += [flag, val]`
InjectFlag(argv, opt_keys, flag, val) ==
    IF flag \in opt_keys /\ val /= "" THEN argv \o <<flag, val>> ELSE argv

\* InjectDryRun without `"--dry-run" not in argv`
InjectDryRun_Unchecked(argv, opt_keys, dry_run_global) ==
    IF "--dry-run" \in opt_keys /\ dry_run_global
    THEN Append(argv, "--dry-run")
    ELSE argv

\* `if "--dry-run" in opt_keys and dry_run_global and "--dry-run" not in argv`
InjectDryRun(argv, opt_keys, dry_run_global) ==
    IF "--dry-run" \in opt_keys /\ dry_run_global /\ "--dry-run" \notin Range(argv)
    THEN Append(argv, "--dry-run")
    ELSE argv

\* opt_keys = set(parser._option_string_actions) if parser else set()
OptKeys(parser) == IF parser.present THEN OptionStrings(parser.actions) ELSE {}

\* the MySQL flag injection of the Run handler
InjectMySQL(argv, opt_keys, gs) ==
    InjectDryRun(
        InjectFlag(
            InjectFlag(
                InjectFlag(
                    InjectFlag(argv, opt_keys, "--host", gs.host),
                    opt_keys, "--user", gs.user),
                opt_keys, "--password", gs.pwd),
            opt_keys, "--db", gs.db),
        opt_keys, gs.dry_run)

\* argv = build_argv(parser, widget_vals) if parser else []
FormArgv(parser, values) ==
    IF parser.present THEN build_argv(parser.actions, values) ELSE <<>>

(***************************************************************************)
(* run_module's pure parts                                                 *)
(***************************************************************************)
\* `x or 0`
OrZero(v) == IF Truthy(v) THEN v ELSE I(0)

\* sys.argv = [mod.__name__] + argv
CallArgv(mod, argv) == <<mod.name>> \o argv

\* run_module without the finally clause
RestoredArgv_Kept(orig, current) == current

\* finally: sys.argv = orig_argv
RestoredArgv(orig, current) == orig

\* leaving capture(): redirect_stdout/redirect_stderr put the old target back
RestoredStream(old, current) == old

(***************************************************************************)
(* State                                                                   *)
(***************************************************************************)
VARIABLES
    pc,          \* "idle" between script runs; "tab" at the top of the tab loop;
                 \* "parse", "main" inside run_module
    nscripts,    \* len(scripts) of this script run
    tab,         \* index of the tab the loop is at
    clicked,     \* the tab whose Run button was pressed (0: none)
    settings,    \* the sidebar's values read by this script run
    mod,         \* the module imported for the tab being run
    parser,      \* build_parser(mod)
    widget_vals, \* the Form State of the tab being run
    fields,      \* the widgets widget_for_action rendered for the tab being run
    missing,     \* the Run handler's missing list
    form_argv,   \* argv as build_argv returned it
    argv,        \* argv as passed to run_module
    ns,          \* the Namespace parse_args returned
    sys_argv,    \* sys.argv
    sys_stdout,  \* sys.stdout
    sys_stderr,  \* sys.stderr
    orig_argv,   \* run_module's saved copy of sys.argv
    old_streams, \* the targets redirect_stdout/redirect_stderr saved
    raised,      \* how the entry point of the last run_module call ended
    result,      \* what the last run_module call returned
    outcome,     \* how the last script run ended
    rendered,    \* the tabs whose form this script run has rendered
    load_failed  \* the tab whose import_module raised (0: none)

vars ==
    <<pc, nscripts, tab, clicked, settings, mod, parser, widget_vals, fields, missing,
      form_argv, argv, ns, sys_argv, sys_stdout, sys_stderr, orig_argv, old_streams,
      raised, result, outcome, rendered, load_failed>>

NoParser == [present |-> FALSE, actions |-> <<>>]
NoSettings == [host |-> "", user |-> "", pwd |-> "", db |-> "", dry_run |-> FALSE]
NotRaised == [kind |-> "none", value |-> None, out |-> "", err |-> ""]

Init ==
    /\ pc = "idle"
    /\ nscripts = 0
    /\ tab = 0
    /\ clicked = 0
    /\ settings = NoSettings
    /\ mod = NoModule
    /\ parser = NoParser
    /\ widget_vals = <<>>
    /\ fields = <<>>
    /\ missing = <<>>
    /\ form_argv = <<>>
    /\ argv = <<>>
    /\ ns = <<>>
    /\ sys_argv = <<"streamlit_app.py">>
    /\ sys_stdout = "console"
    /\ sys_stderr = "console"
    /\ orig_argv = <<"streamlit_app.py">>
    /\ old_streams = <<"console", "console">>
    /\ raised = NotRaised
    /\ result = NoResult
    /\ outcome = "none"
    /\ rendered = {}
    /\ load_failed = 0

\* the locals of one pass of the tab loop, rebound by the next pass
ResetLocals ==
    /\ mod' = NoModule
    /\ parser' = NoParser
    /\ widget_vals' = <<>>
    /\ fields' = <<>>
    /\ missing' = <<>>
    /\ form_argv' = <<>>
    /\ argv' = <<>>
    /\ ns' = <<>>

\* end of the `with tab:` body: the next tab, or the end of the script
NextTab ==
    /\ rendered' = rendered \cup {tab}
    /\ IF tab < nscripts
       THEN /\ pc' = "tab"
            /\ tab' = tab + 1
            /\ outcome' = outcome
       ELSE /\ pc' = "idle"
            /\ tab' = tab
            /\ outcome' = "done"

\* Streamlit reruns the script top to bottom: sidebar, discover_scripts, tabs.
Rerun(n, c, gs) ==
    /\ pc = "idle"
    /\ nscripts' = n
    /\ clicked' = c
    /\ settings' = gs
    /\ rendered' = {}
    /\ load_failed' = 0
    /\ result' = NoResult
    /\ raised' = NotRaised
    /\ ResetLocals
    /\ IF n = 0
       THEN pc' = "idle" /\ tab' = 0 /\ outcome' = "stopped"     \* st.info; st.stop()
       ELSE pc' = "tab" /\ tab' = 1 /\ outcome' = "running"
    /\ UNCHANGED <<sys_argv, sys_stdout, sys_stderr, orig_argv, old_streams>>

\* import_module(path) raises: nothing in the loop catches it, the script run ends
LoadFails ==
    /\ pc = "tab"
    /\ pc' = "idle"
    /\ outcome' = "exception"
    /\ load_failed' = tab
    /\ UNCHANGED <<nscripts, tab, clicked, settings, mod, parser, widget_vals, fields, missing,
                   form_argv, argv, ns, sys_argv, sys_stdout, sys_stderr, orig_argv,
                   old_streams, raised, result, rendered>>

\* a tab whose Run button was not pressed: import, build_parser, widgets
RenderTab ==
    /\ pc = "tab"
    /\ clicked /= tab
    /\ NextTab
    /\ UNCHANGED <<nscripts, clicked, settings, mod, parser, widget_vals, fields, missing,
                   form_argv, argv, ns, sys_argv, sys_stdout, sys_stderr, orig_argv,
                   old_streams, raised, result, load_failed>>

\* the tab whose Run button was pressed: import, build_parser, widgets, the
\* required-field check, build_argv, the MySQL injection, and run_module up to
\* the call of the entry point (capture() entered, sys.argv replaced)
PressRun(m, vals) ==
    /\ pc = "tab"
    /\ clicked = tab
    /\ LET p == build_parser(m)
           miss == Missing(p, vals)
           built == FormArgv(p, vals)
           final == InjectMySQL(built, OptKeys(p), settings)
       IN
       /\ mod' = m
       /\ parser' = p
       /\ widget_vals' = vals
       /\ fields' = widgets(p.actions)
       /\ missing' = miss
       /\ ns' = <<>>
       /\ IF miss /= <<>>
          THEN /\ pc' = "idle"                \* st.error; st.stop()
               /\ outcome' = "stopped"
               /\ rendered' = rendered \cup {tab}
               /\ form_argv' = <<>>
               /\ argv' = <<>>
               /\ UNCHANGED <<sys_argv, sys_stdout, sys_stderr, orig_argv, old_streams>>
          ELSE /\ form_argv' = built
               /\ argv' = final
               /\ old_streams' = <<sys_stdout, sys_stderr>>
               /\ sys_stdout' = "out"
               /\ sys_stderr' = "err"
               /\ orig_argv' = sys_argv
               /\ sys_argv' = CallArgv(m, final)
               /\ pc' = IF m.kind = "cli" THEN "parse" ELSE "main"
               /\ UNCHANGED <<outcome, rendered>>
    /\ UNCHANGED <<nscripts, tab, clicked, settings, raised, result, load_failed>>

\* run_module's except/finally and the end of capture(), then the handler's
\* display of the result and the rest of the tab loop
Leave(how) ==
    /\ raised' = how
    /\ sys_argv' = RestoredArgv(orig_argv, sys_argv)
    /\ sys_stdout' = RestoredStream(old_streams[1], sys_stdout)
    /\ sys_stderr' = RestoredStream(old_streams[2], sys_stderr)
    /\ ResetLocals
    /\ IF how.kind = "raise"
       THEN /\ result' = NoResult             \* not a SystemExit: it propagates
            /\ pc' = "idle"
            /\ outcome' = "exception"
            /\ UNCHANGED <<tab, rendered>>
       ELSE /\ result' = [kind |-> "returned", out |-> how.out, err |-> how.err,
                          rc |-> OrZero(how.value)]
            /\ NextTab
    /\ UNCHANGED <<nscripts, clicked, settings, orig_argv, old_streams, load_failed>>

\* parser = ArgumentParser(); mod.cli(parser); ns = parser.parse_args(argv)
RunParse ==
    /\ pc = "parse"
    /\ LET p == parse_args(ArgumentParser(mod.cli, TRUE), argv) IN
       CASE p.status = "ok" ->
              /\ ns' = p.ns
              /\ pc' = "main"
              /\ UNCHANGED <<nscripts, tab, clicked, settings, mod, parser, widget_vals, fields,
                             missing, form_argv, argv, sys_argv, sys_stdout, sys_stderr,
                             orig_argv, old_streams, raised, result, outcome, rendered,
                             load_failed>>
         [] p.status = "help" ->
              Leave([kind |-> "exit", value |-> I(0), out |-> "usage", err |-> ""])
         [] OTHER ->
              Leave([kind |-> "exit", value |-> I(2), out |-> "", err |-> "usage: error"])

\* rc = mod.main(ns) or 0 / mod.main() or 0 / runpy.run_path(...)
RunMain(o) ==
    /\ pc = "main"
    /\ mod.kind = "plain" => o.kind /= "return" \/ o.value = None
    /\ Leave(o)

(***************************************************************************)
(* Spec: a dashboard session.  Script runs follow one another; each walks  *)
(* the tabs of the scripts discovered, over a few scripts' descriptors.    *)
(***************************************************************************)
SessionDescriptors == {<<>>, <<DeclProductId, DeclLimit>>, <<DeclHost, DeclDryRun>>}

SessionModules ==
    {[name |-> "", kind |-> "cli", cli |-> d] : d \in SessionDescriptors}
    \cup {[name |-> "", kind |-> k, cli |-> <<>>] : k \in {"main", "plain"}}

SessionSettings ==
    {NoSettings,
     [host |-> "db.local", user |-> "admin", pwd |-> "s3cret", db |-> "shop",
      dry_run |-> TRUE]}

Next ==
    \/ \E n \in 0..MaxScripts, c \in 0..MaxScripts, gs \in SessionSettings :
          c <= n /\ Rerun(n, c, gs)
    \/ LoadFails
    \/ RenderTab
    \/ \E m \in SessionModules : \E vals \in FormStates(m.cli) :
          PressRun([m EXCEPT !.name = ScriptNames[tab]], vals)
    \/ RunParse
    \/ \E o \in EntryOutcomes : RunMain(o)

Spec == Init /\ [][Next]_vars

(***************************************************************************)
(* SpecRun: one press of Run, for every descriptor, Form State and sidebar *)
(* within the bounds.  It starts where a script run that found one script  *)
(* reaches the tab whose button was pressed.                               *)
(***************************************************************************)
InitRun ==
    /\ pc = "tab"
    /\ nscripts = 1
    /\ tab = 1
    /\ clicked = 1
    /\ settings \in GlobalSettings
    /\ mod = NoModule
    /\ parser = NoParser
    /\ widget_vals = <<>>
    /\ fields = <<>>
    /\ missing = <<>>
    /\ form_argv = <<>>
    /\ argv = <<>>
    /\ ns = <<>>
    /\ sys_argv = <<"streamlit_app.py">>
    /\ sys_stdout = "console"
    /\ sys_stderr = "console"
    /\ orig_argv = <<"streamlit_app.py">>
    /\ old_streams = <<"console", "console">>
    /\ raised = NotRaised
    /\ result = NoResult
    /\ outcome = "running"
    /\ rendered = {}
    /\ load_failed = 0

RunOutcomes ==
    {o \in EntryOutcomes :
        /\ o.out = "" /\ o.err = ""
        /\ o.kind = "exit" => o.value = I(1)
        /\ o.kind = "return" => o.value = None}

NextRun ==
    \/ \E m \in Modules(ScriptNames[1]) : \E vals \in FormStates(m.cli) : PressRun(m, vals)
    \/ RunParse
    \/ \E o \in RunOutcomes : RunMain(o)

SpecRun == InitRun /\ [][NextRun]_vars

(***************************************************************************)
(* Properties                                                              *)
(***************************************************************************)
InCall == pc \in {"parse", "main"}
HostArgv == <<"streamlit_app.py">>
Count(tok, seq) == Cardinality({i \in DOMAIN seq : seq[i] = tok})
Declares(actions, flag) ==
    \E k \in DOMAIN actions : \E j \in DOMAIN actions[k].option_strings :
        actions[k].option_strings[j] = flag
\* a Form State value that is empty: the empty string, or unset
EmptyValue(v) == v = None \/ v = S("")
RequiredEmpty(actions, values) ==
    \E k \in DOMAIN actions :
        /\ actions[k].option_strings = <<>> \/ actions[k].required
        /\ EmptyValue(Get(values, actions[k].dest))

\* C1: a run whose entry point raised a failure other than SystemExit ends
\* with an Execution Result of non-zero code and non-empty error text, and the
\* failure does not end the script run.
C1_FailureContained ==
    raised.kind = "raise" =>
        /\ result.kind = "returned"
        /\ result.rc /= I(0)
        /\ result.err /= ""
        /\ outcome /= "exception"

\* C2: outside a run_module call sys.argv and the stdout/stderr targets are
\* what they were before the call, whichever way the call ended; during the
\* call sys.argv is the command name followed by the Invocation.
C2_GlobalsRestored ==
    /\ InCall => /\ sys_argv = <<mod.name>> \o argv
                 /\ sys_stdout = "out" /\ sys_stderr = "err"
    /\ ~InCall => /\ sys_argv = orig_argv /\ sys_argv = HostArgv
                  /\ sys_stdout = old_streams[1] /\ sys_stdout = "console"
                  /\ sys_stderr = old_streams[2] /\ sys_stderr = "console"

C2_Witness ==
    /\ pc = "idle" /\ raised.kind = "raise" /\ outcome = "exception"
    /\ sys_argv = HostArgv /\ sys_stdout = "console"

\* C3: a Form State with a required argument empty or unset never reaches
\* run_module: the run is stopped, no Invocation is built, nothing is run.
C3_GatingTotal ==
    (mod.kind /= "none" /\ RequiredEmpty(parser.actions, widget_vals)) =>
        /\ pc = "idle" /\ outcome = "stopped"
        /\ missing /= <<>>
        /\ form_argv = <<>> /\ argv = <<>>
        /\ sys_argv = HostArgv
        /\ raised = NotRaised /\ result = NoResult

C3_Witness ==
    /\ pc = "idle" /\ outcome = "stopped"
    /\ parser.actions = <<DeclPostId, DeclProductId>>
    /\ widget_vals["post_id"] = None /\ widget_vals["product_id"] = S("abc")
    /\ missing = <<"post_id">>

RECURSIVE EmptyRequiredFrom(_, _, _)
EmptyRequiredFrom(actions, values, k) ==
    IF k > Len(actions) THEN <<>>
    ELSE (IF RequiredEmpty(<<actions[k]>>, values) THEN <<actions[k].dest>> ELSE <<>>)
         \o EmptyRequiredFrom(actions, values, k + 1)

\* C4: the missing list of a blocked run is exactly the required arguments
\* whose value is the empty string or unset, in descriptor order; a required
\* argument holding a value, a numeric 0 included, does not block the run.
C4_MissingExact ==
    /\ missing = EmptyRequiredFrom(parser.actions, widget_vals, 1)
    /\ (mod.kind /= "none" /\ ~RequiredEmpty(parser.actions, widget_vals)) =>
            ~(pc = "idle" /\ outcome = "stopped")

CredToken(actions, flag, val) ==
    IF Declares(actions, flag) /\ val /= "" THEN <<flag, val>> ELSE <<>>

CredTokens(actions, gs) ==
    CredToken(actions, "--host", gs.host) \o CredToken(actions, "--user", gs.user)
    \o CredToken(actions, "--password", gs.pwd) \o CredToken(actions, "--db", gs.db)

InjectedTokensAllowed ==
    /\ \A i \in (Len(form_argv) + 1)..Len(argv) :
          \/ Declares(parser.actions, argv[i])
          \/ argv[i] \in {settings.host, settings.user, settings.pwd, settings.db}
    /\ (\A f \in {"--host", "--user", "--password", "--db", "--dry-run"} :
            ~Declares(parser.actions, f)) => argv = form_argv

\* C5 as stated: --dry-run is appended iff declared, the toggle is on, and it
\* is not in the form-built Invocation.
C5_InjectorIff_Original ==
    InCall =>
        /\ argv = form_argv \o CredTokens(parser.actions, settings)
                  \o (IF /\ Declares(parser.actions, "--dry-run")
                         /\ settings.dry_run
                         /\ "--dry-run" \notin Range(form_argv)
                      THEN <<"--dry-run">> ELSE <<>>)
        /\ InjectedTokensAllowed

\* C5 amended: [flag, value] is appended for each of --host, --user,
\* --password, --db iff the descriptor declares exactly that option string and
\* the setting is non-empty; --dry-run is appended iff declared, the toggle is
\* on, and no token of the Invocation so far (the form-built tokens and the
\* credential tokens just appended) is --dry-run.  The tokens added are
\* declared flags or setting values; with none of the five flags declared
\* nothing is added.
C5_InjectorIff ==
    InCall =>
        /\ argv = form_argv \o CredTokens(parser.actions, settings)
                  \o (IF /\ Declares(parser.actions, "--dry-run")
                         /\ settings.dry_run
                         /\ "--dry-run" \notin
                               Range(form_argv \o CredTokens(parser.actions, settings))
                      THEN <<"--dry-run">> ELSE <<>>)
        /\ InjectedTokensAllowed

C5_Witness ==
    /\ InCall
    /\ parser.actions = <<DeclHost, DeclDryRun>>
    /\ settings.host = "--dry-run" /\ settings.dry_run
    /\ widget_vals["host"] = S("") /\ widget_vals["dry_run"] = B(FALSE)
    /\ argv = <<"--host", "--dry-run">>

C7_ExitCode ==
    raised.kind = "exit" =>
        /\ result.kind = "returned"
        /\ result.rc = (IF raised.value = None THEN I(0) ELSE raised.value)
        /\ result.rc.t = "int"

\* the tokens the claim gives one declaration
ClaimedTokens(act, v) ==
    IF act.action = "store_true" THEN (IF v = B(TRUE) THEN <<"--dry-run">> ELSE <<>>)
    ELSE IF act.option_strings = <<>> THEN <<Str(v)>>
    ELSE IF EmptyValue(v) THEN <<>>
    ELSE <<act.option_strings[1], Str(v)>>

RECURSIVE ClaimedArgv(_, _, _)
ClaimedArgv(actions, values, k) ==
    IF k = 0 THEN <<>>
    ELSE ClaimedArgv(actions, values, k - 1) \o ClaimedTokens(actions[k], values[actions[k].dest])

\* C8: build_argv emits, in declaration order, the flag of a boolean flag iff
\* its value is true, [flag, str(value)] of a value flag iff its value is
\* neither "" nor unset (0 is emitted as "0"), and one token str(value) for a
\* positional; [id, --limit] with {id: "abc", limit: 5} gives
\* ["abc", "--limit", "5"] and with limit 0 gives ["abc", "--limit", "0"].
C8_BuildArgv ==
    (InCall /\ parser.present) =>
        /\ form_argv = ClaimedArgv(parser.actions, widget_vals, Len(parser.actions))
        /\ (parser.actions = <<DeclProductId, DeclLimit>>
            /\ widget_vals["product_id"] = S("abc")) =>
              /\ widget_vals["limit"] = I(5) => form_argv = <<"abc", "--limit", "5">>
              /\ widget_vals["limit"] = I(0) => form_argv = <<"abc", "--limit", "0">>

C8_Witness ==
    /\ InCall
    /\ parser.actions = <<DeclProductId, DeclLimit>>
    /\ widget_vals["product_id"] = S("abc") /\ widget_vals["limit"] = I(0)
    /\ form_argv = <<"abc", "--limit", "0">>

\* C9: with every required field populated, parsing build_argv's Invocation
\* with the same descriptor succeeds and gives back every non-empty form
\* value, values that look like a flag token included.
C9_RoundTrip ==
    (pc = "parse" /\ argv = form_argv) =>
        LET p == parse_args(ArgumentParser(mod.cli, TRUE), form_argv) IN
        /\ p.status = "ok"
        /\ \A d \in DOMAIN widget_vals :
              ~EmptyValue(widget_vals[d]) => p.ns[d] = widget_vals[d]

\* C10: when import_module fails for one script, every other discovered
\* script still gets its tab rendered by that script run.
C10_LoadFailureIsolated ==
    (pc = "idle" /\ load_failed /= 0) =>
        \A t \in 1..nscripts : t /= load_failed => t \in rendered

(***************************************************************************)
(* C11, C12: the fields synthesized for a parser's declarations.           *)
(***************************************************************************)
\* the argument name denotes a secret
DenotesSecret(act) == act.dest = "password"

\* the kind of field the declaration calls for
ClaimedWidget(act) ==
    IF act.action = "store_true" THEN "checkbox"
    ELSE IF act.choices /= <<>> THEN "selectbox"
    ELSE IF act.type \in {"int", "float"} THEN "number_input"
    ELSE "text_input"

\* C11: every field of a rendered form has the kind its declaration calls
\* for: a checkbox for a boolean flag, a single-select over the declared
\* choices for an enumerated argument, a numeric input with step 1 (integer)
\* or 0.1 (float), a text field otherwise, masked exactly when the argument
\* name denotes a secret; and the label carries the required-marker exactly
\* for positionals and for flags declared required.
C11_FieldForDeclaration ==
    \A k \in DOMAIN fields :
        LET act == parser.actions[k]
            w == fields[k]
        IN  /\ w.widget = ClaimedWidget(act)
            /\ w.widget = "selectbox" => w.options = act.choices
            /\ w.widget = "number_input" =>
                  w.step = (IF act.type = "int" THEN "1" ELSE "0.1")
            /\ w.widget = "text_input" => (w.type = "password" <=> DenotesSecret(act))
            /\ w.marked <=> (act.option_strings = <<>> \/ act.required)

\* the value the declaration calls for when the form first renders
ClaimedInitial(act) ==
    IF act.action = "store_true" THEN B(FALSE)
    ELSE IF act.default /= None THEN act.default
    ELSE IF act.choices /= <<>> THEN S(act.choices[1])
    ELSE IF act.type = "int" THEN I(0)
    ELSE IF act.type = "float" THEN F(0)
    ELSE S("")

\* C12: every field of a rendered form starts with false for a boolean flag,
\* and otherwise with the declared default, or, when no default is declared,
\* with the first choice (enumerated), 0 (integer or float) or the empty
\* string (free string).
C12_InitialValue ==
    \A k \in DOMAIN fields : fields[k].value = ClaimedInitial(parser.actions[k])

(***************************************************************************)
(* C13: the order of form-built and injected tokens, and duplicated flags. *)
(***************************************************************************)
\* the four credential flags: flag, dest of the declaring action, setting
Credentials(gs) ==
    {<<"--host", "host", gs.host>>, <<"--user", "user", gs.user>>,
     <<"--password", "password", gs.pwd>>, <<"--db", "db", gs.db>>}

\* the flag is declared, and its form value and its setting are both non-empty
BothSet(c) ==
    /\ Declares(parser.actions, c[1])
    /\ c[2] \in DOMAIN widget_vals
    /\ ~EmptyValue(widget_vals[c[2]])
    /\ c[3] /= ""

\* [flag, form value] among the form-built tokens, [flag, global value] after
\* them, and the global value in the namespace once the parse has succeeded
FormFirstGlobalLast(c) ==
    /\ \E i \in 1..(Len(form_argv) - 1) :
          argv[i] = c[1] /\ argv[i + 1] = widget_vals[c[2]].s
    /\ \E j \in (Len(form_argv) + 1)..(Len(argv) - 1) :
          argv[j] = c[1] /\ argv[j + 1] = c[3]
    /\ pc = "main" => ns[c[2]] = S(c[3])

\* no form value and no credential setting is the string tok
NoValueIs(tok) ==
    /\ \A d \in DOMAIN widget_vals : widget_vals[d] /= S(tok)
    /\ tok \notin {settings.host, settings.user, settings.pwd, settings.db}

\* C13 as stated: the injected tokens follow the form-built ones; a declared
\* credential flag with form value and setting both non-empty occurs twice,
\* form value first and global value last, and the parse yields the global
\* value; --dry-run occurs at most once in the Invocation.
C13_InjectedLast_Original ==
    InCall =>
        /\ SubSeq(argv, 1, Len(form_argv)) = form_argv
        /\ \A c \in Credentials(settings) :
              BothSet(c) => FormFirstGlobalLast(c) /\ Count(c[1], argv) = 2
        /\ Count("--dry-run", argv) <= 1

\* C13 amended: the injected tokens follow the form-built ones; a declared
\* credential flag with form value and setting both non-empty occurs with the
\* form value among the form-built tokens and with the global value after
\* them (twice in all when no value is itself that flag), and the parse, when
\* it succeeds, yields the global value; the injector appends --dry-run at
\* most once and only when no token so far is --dry-run, so --dry-run occurs
\* at most once when no form value or credential setting is that string.
C13_InjectedLast ==
    InCall =>
        /\ SubSeq(argv, 1, Len(form_argv)) = form_argv
        /\ \A c \in Credentials(settings) :
              BothSet(c) =>
                 /\ FormFirstGlobalLast(c)
                 /\ NoValueIs(c[1]) => Count(c[1], argv) = 2
        /\ LET sofar == form_argv \o CredTokens(parser.actions, settings) IN
              \/ argv = sofar
              \/ argv = Append(sofar, "--dry-run") /\ "--dry-run" \notin Range(sofar)
        /\ NoValueIs("--dry-run") => Count("--dry-run", argv) <= 1

C13_Witness ==
    /\ pc = "main"
    /\ parser.actions = <<DeclHost, DeclDryRun>>
    /\ widget_vals["host"] = S("localhost") /\ widget_vals["dry_run"] = B(TRUE)
    /\ settings.host = "db.local" /\ settings.dry_run
    /\ argv = <<"--host", "localhost", "--dry-run", "--host", "db.local">>
    /\ ns["host"] = S("db.local")
====
